---- MODULE Spec2Model ----
(***************************************************************************)
(* ledgeracio: the allowlist commands (key generation, signing,            *)
(* inspection, key custody) as a state machine over the files they read    *)
(* and write.  Files are byte sequences (0..255); text files are the       *)
(* sequences of their ASCII codes.                                         *)
(***************************************************************************)
EXTENDS Integers, Sequences, FiniteSets, TLC

VARIABLES
    pubF,   \* the file `file.pub`           (NoFile or [mode, data])
    secF,   \* the file `file.sec`           (NoFile or [mode, data])
    artF,   \* the signed allowlist, Sign's --output (NoFile or [mode, data])
    outF,   \* Inspect's --output file       (NoFile or [mode, data])
    hw,     \* the key the custody device stores (NoKey or 32 bytes)
    chain,  \* the nominate transactions submitted to the chain, oldest first
    res     \* what the last command did: its arguments and its result

vars == <<pubF, secF, artF, outF, hw, chain, res>>

(***************************************************************************)
(* Bounds of the model.                                                    *)
(***************************************************************************)
\* the longest textual allowlist given to Sign, in lines
MaxLines == 2

\* the longest textual allowlist signed before an Inspect, in lines
MaxShort == 1

\* the longest textual allowlist with blank, comment and malformed lines, in
\* lines
MaxCanon == 2

\* the largest validator set given to Nominate, in addresses
MaxSet == 2

(***************************************************************************)
(* Bytes and text.                                                         *)
(***************************************************************************)
Repeat(b, n) == [i \in 1..n |-> b]

Drop(s, n) == SubSeq(s, n + 1, Len(s))

Take(s, n) == SubSeq(s, 1, n)

StartsWith(s, p) == Len(s) >= Len(p) /\ Take(s, Len(p)) = p

IsDigit(c) == c >= 48 /\ c <= 57

IsAlpha(c) == (c >= 65 /\ c <= 90) \/ (c >= 97 /\ c <= 122)

IsB64Text(c) == IsAlpha(c) \/ IsDigit(c) \/ c = 47 \/ c = 43

\* str::to_ascii_lowercase
ToAsciiLowercase(s) == [i \in 1..Len(s) |-> IF s[i] >= 65 /\ s[i] <= 90 THEN s[i] + 32 ELSE s[i]]

\* the end of the longest run of digits / letters / base64 text that starts
\* at s[i]: the index after it
RECURSIVE DigitSpan(_, _)
DigitSpan(s, i) == IF i <= Len(s) /\ IsDigit(s[i]) THEN DigitSpan(s, i + 1) ELSE i

RECURSIVE AlphaSpan(_, _)
AlphaSpan(s, i) == IF i <= Len(s) /\ IsAlpha(s[i]) THEN AlphaSpan(s, i + 1) ELSE i

RECURSIVE B64Span(_, _)
B64Span(s, i) == IF i <= Len(s) /\ IsB64Text(s[i]) THEN B64Span(s, i + 1) ELSE i

\* u16::to_le_bytes, u16::from_le_bytes, u32::to_le_bytes
U16ToLe(n) == <<n % 256, (n \div 256) % 256>>

U16FromLe(b) == b[1] + 256 * b[2]

U32ToLe(n) == <<n % 256, (n \div 256) % 256, (n \div 65536) % 256, (n \div 16777216) % 256>>

\* hex::encode: two lowercase hexadecimal digits for each byte
HexDigit(v) == IF v < 10 THEN 48 + v ELSE 87 + v

HexEncode(b) ==
    [i \in 1..2 * Len(b) |->
        IF i % 2 = 1 THEN HexDigit(b[(i + 1) \div 2] \div 16) ELSE HexDigit(b[i \div 2] % 16)]

\* the byte b with bit k (0..7) flipped
FlipBit(b, k) == IF (b \div (2 ^ k)) % 2 = 1 THEN b - 2 ^ k ELSE b + 2 ^ k

(***************************************************************************)
(* base64::encode and base64::decode_config_slice (STANDARD).              *)
(***************************************************************************)
B64Char(v) ==
    IF v < 26 THEN 65 + v
    ELSE IF v < 52 THEN 97 + (v - 26)
    ELSE IF v < 62 THEN 48 + (v - 52)
    ELSE IF v = 62 THEN 43 ELSE 47

B64Val(c) ==
    IF c >= 65 /\ c <= 90 THEN c - 65
    ELSE IF c >= 97 /\ c <= 122 THEN c - 97 + 26
    ELSE IF c >= 48 /\ c <= 57 THEN c - 48 + 52
    ELSE IF c = 43 THEN 62 ELSE 63

\* base64::encode: three bytes give four symbols; a last group of one or
\* two bytes is padded with "="
Base64Encode(b) ==
    LET At(k) == IF k <= Len(b) THEN b[k] ELSE 0
        Symbol(j) ==
            LET q == 3 * ((j - 1) \div 4)
                t == (j - 1) % 4
            IN  IF t = 0 THEN B64Char(At(q + 1) \div 4)
                ELSE IF t = 1 THEN B64Char((At(q + 1) % 4) * 16 + At(q + 2) \div 16)
                ELSE IF t = 2
                THEN IF q + 2 > Len(b) THEN 61
                     ELSE B64Char((At(q + 2) % 16) * 4 + At(q + 3) \div 64)
                ELSE IF q + 3 > Len(b) THEN 61 ELSE B64Char(At(q + 3) % 64)
    IN  [j \in 1..(4 * ((Len(b) + 2) \div 3)) |-> Symbol(j)]

\* the bytes of a run of base64 symbols (no padding): 4 symbols give 3 bytes,
\* a tail of 3 gives 2 and a tail of 2 gives 1
B64Bytes(s) ==
    LET tail == Len(s) % 4
        n == 3 * (Len(s) \div 4) + (IF tail = 3 THEN 2 ELSE IF tail = 2 THEN 1 ELSE 0)
        Byte(k) ==
            LET q == 4 * ((k - 1) \div 3)
                t == (k - 1) % 3
            IN  IF t = 0 THEN B64Val(s[q + 1]) * 4 + B64Val(s[q + 2]) \div 16
                ELSE IF t = 1 THEN (B64Val(s[q + 2]) % 16) * 16 + B64Val(s[q + 3]) \div 4
                ELSE (B64Val(s[q + 3]) % 4) * 64 + B64Val(s[q + 4])
    IN  [k \in 1..n |-> Byte(k)]

\* decode_config_slice(data, STANDARD, &mut [0; cap]) for data = symbols "=":
\* a decode error, a panic when the decoded bytes do not fit the slice, or the
\* decoded bytes.  Padding after fewer than two symbols of a quantum, and a
\* last symbol with bits that no byte holds, are decode errors.
Base64DecodeSlice(data, cap) ==
    LET syms == Take(data, Len(data) - 1)
        tail == Len(syms) % 4
        last == B64Val(syms[Len(syms)])
    IN  IF tail < 2 THEN [kind |-> "err", bytes |-> <<>>]
        ELSE IF (tail = 2 /\ last % 16 # 0) \/ (tail = 3 /\ last % 4 # 0)
        THEN [kind |-> "err", bytes |-> <<>>]
        ELSE IF Len(B64Bytes(syms)) > cap
        THEN [kind |-> "panic", bytes |-> <<>>]
        ELSE [kind |-> "ok", bytes |-> B64Bytes(syms)]

(***************************************************************************)
(* Networks: the --network argument, sp_core's Ss58AddressFormat and its   *)
(* one-byte tag.                                                           *)
(***************************************************************************)
\* arg_enum! Network
Network == {"Kusama", "Polkadot"}

\* the match of main with another format in the arm of Polkadot
AddressFormatOther(network) ==
    IF network = "Kusama" THEN "KusamaAccount" ELSE "SubstrateAccount"

\* main: let address_format = match network { ... }
AddressFormat(network) ==
    IF network = "Kusama" THEN "KusamaAccount" ELSE "PolkadotAccount"

\* u8::from(Ss58AddressFormat)
U8From(format) ==
    CASE format = "PolkadotAccount" -> 0
      [] format = "KusamaAccount" -> 2
      [] format = "SubstrateAccount" -> 42

\* Ss58AddressFormat::try_from(&str): the format a lower-case name stands for,
\* "" when the name is none
FormatFromName(name) ==
    CASE name = <<112, 111, 108, 107, 97, 100, 111, 116>> -> "PolkadotAccount"
      [] name = <<107, 117, 115, 97, 109, 97>> -> "KusamaAccount"
      [] name = <<115, 117, 98, 115, 116, 114, 97, 116, 101>> -> "SubstrateAccount"
      [] OTHER -> ""

(***************************************************************************)
(* ed25519_dalek, idealised.  A secret key is any 32 bytes; PublicOf is a  *)
(* stand-in for the derivation of its public key; IsCurvePoint stands for  *)
(* PublicKey::from_bytes accepting 32 bytes (the bytes decompress to a     *)
(* point).  A signature is 64 bytes that verify for one (public key,       *)
(* message) only: it is kept as the key and message it was made for and    *)
(* the set of its 512 bits that have been flipped since.                   *)
(***************************************************************************)
SecretKeys == {Repeat(17, 32), Repeat(200, 32)}

PublicOf(sk) == [i \in 1..32 |-> IF i = 1 THEN (2 * sk[1] + 1) % 256 ELSE (7 * sk[i] + i) % 256]

IsCurvePoint(b) == Len(b) = 32 /\ b[1] % 2 = 1

NoSig == [key |-> <<>>, pub |-> <<>>, msg |-> <<>>, flips |-> {}]

\* ExpandedSecretKey::sign(msg, &public)
Ed25519Sign(sk, pk, msg) == [key |-> sk, pub |-> pk, msg |-> msg, flips |-> {}]

\* PublicKey::verify(msg, &signature)
Ed25519Verify(pk, msg, sig) ==
    /\ sig.flips = {}
    /\ sig.msg = msg
    /\ sig.pub = pk
    /\ Len(sig.key) = 32
    /\ PublicOf(sig.key) = pk

(***************************************************************************)
(* Files.  A mode is the integer of its permission bits.                   *)
(***************************************************************************)
NoFile == [exists |-> FALSE, mode |-> 0, data |-> <<>>]

NoArtifact == [exists |-> FALSE, mode |-> 0, data |-> [body |-> <<>>, sig |-> NoSig]]

OwnerMayWrite(f) == (f.mode \div 128) % 2 = 1

OthersMayRead(f) == (f.mode \div 32) % 2 = 1 \/ (f.mode \div 4) % 2 = 1

\* OpenOptions::new().mode(m).write(true).create(true).truncate(true).open(path)
\* and the writes that follow: the mode is given to a file this creates and
\* an existing file keeps its own; an existing file the owner may not write
\* is not opened.
OpenTrunc(f, m, empty) ==
    IF ~f.exists THEN [exists |-> TRUE, mode |-> m, data |-> empty]
    ELSE [exists |-> TRUE, mode |-> f.mode, data |-> empty]

CanOpenForWrite(f) == ~f.exists \/ OwnerMayWrite(f)

\* fn write(buf, path)
write(buf, f) == [OpenTrunc(f, 256, <<>>) EXCEPT !.data = buf]

(***************************************************************************)
(* The key files GenKey writes.                                            *)
(***************************************************************************)
MAGIC == <<76, 101, 100, 103, 101, 114, 97, 99, 105, 111, 32, 83, 101, 99, 114, 101, 116, 32, 75, 101, 121>>

\* NetworkName with the match on the network left out: every file.pub names
\* Polkadot
NetworkNameFixed(format) == <<80, 111, 108, 107, 97, 100, 111, 116>>

\* the name GenKey writes for a network; <<>> stands for the arm
\* `_ => unreachable!(..)`, which GenKeyResult turns into the abort
NetworkName(format) ==
    CASE format = "KusamaAccount" -> <<75, 117, 115, 97, 109, 97>>
      [] format = "PolkadotAccount" -> <<80, 111, 108, 107, 97, 100, 111, 116>>
      [] OTHER -> <<>>

\* "Ledgeracio version 1 public key for network {}\n{}\n"
PublicText(format, publickey) ==
    <<76, 101, 100, 103, 101, 114, 97, 99, 105, 111, 32, 118, 101, 114, 115, 105, 111, 110, 32>>
    \o <<49>>
    \o <<32, 112, 117, 98, 108, 105, 99, 32, 107, 101, 121, 32, 102, 111, 114, 32, 110, 101, 116, 119, 111, 114, 107, 32>>
    \o NetworkName(format) \o <<10>> \o Base64Encode(publickey) \o <<10>>

\* SecretBytes with the version in big-endian order
SecretBytesBigEndian(format, secretkey, publickey) ==
    MAGIC \o <<0, 1>> \o <<U8From(format)>> \o secretkey \o publickey

\* MAGIC, 1_u16.to_le_bytes(), [network.into()], secretkey, publickey
SecretBytes(format, secretkey, publickey) ==
    MAGIC \o U16ToLe(1) \o <<U8From(format)>> \o secretkey \o publickey

(***************************************************************************)
(* Reading the key files back.                                             *)
(***************************************************************************)
\* ReadSecret with the version looked at before the magic number
ReadSecretVersionFirst(secret, format) ==
    IF Len(secret) # 88
    THEN [status |-> "BadKeyLength", detail |-> Len(secret), sk |-> <<>>, pk |-> <<>>]
    ELSE IF SubSeq(secret, 22, 23) # <<1, 0>>
    THEN [status |-> "UnsupportedVersion", detail |-> U16FromLe(SubSeq(secret, 22, 23)),
          sk |-> <<>>, pk |-> <<>>]
    ELSE IF Take(secret, 21) # MAGIC
    THEN [status |-> "InvalidMagic", detail |-> 0, sk |-> <<>>, pk |-> <<>>]
    ELSE IF secret[24] # U8From(format)
    THEN [status |-> "NetworkMismatch", detail |-> secret[24], sk |-> <<>>, pk |-> <<>>]
    ELSE IF ~IsCurvePoint(SubSeq(secret, 57, 88))
    THEN [status |-> "InvalidKeyEncoding", detail |-> 0, sk |-> <<>>, pk |-> <<>>]
    ELSE [status |-> "ok", detail |-> 0,
          sk |-> SubSeq(secret, 25, 56), pk |-> SubSeq(secret, 57, 88)]

\* ReadSecret with the check of the length turned into a lower bound: bytes
\* after the 88th are ignored
ReadSecretAtLeast(secret, format) ==
    IF Len(secret) < 88
    THEN [status |-> "BadKeyLength", detail |-> Len(secret), sk |-> <<>>, pk |-> <<>>]
    ELSE IF Take(secret, 21) # MAGIC
    THEN [status |-> "InvalidMagic", detail |-> 0, sk |-> <<>>, pk |-> <<>>]
    ELSE IF SubSeq(secret, 22, 23) # <<1, 0>>
    THEN [status |-> "UnsupportedVersion", detail |-> U16FromLe(SubSeq(secret, 22, 23)),
          sk |-> <<>>, pk |-> <<>>]
    ELSE IF secret[24] # U8From(format)
    THEN [status |-> "NetworkMismatch", detail |-> secret[24], sk |-> <<>>, pk |-> <<>>]
    ELSE IF ~IsCurvePoint(SubSeq(secret, 57, 88))
    THEN [status |-> "InvalidKeyEncoding", detail |-> 0, sk |-> <<>>, pk |-> <<>>]
    ELSE [status |-> "ok", detail |-> 0,
          sk |-> SubSeq(secret, 25, 56), pk |-> SubSeq(secret, 57, 88)]

\* ACL::Sign: the checks on the bytes of the secret key file, in the order of
\* the code.  detail is the value the error message names.
ReadSecret(secret, format) ==
    IF Len(secret) # 88
    THEN [status |-> "BadKeyLength", detail |-> Len(secret), sk |-> <<>>, pk |-> <<>>]
    ELSE IF Take(secret, 21) # MAGIC
    THEN [status |-> "InvalidMagic", detail |-> 0, sk |-> <<>>, pk |-> <<>>]
    ELSE IF SubSeq(secret, 22, 23) # <<1, 0>>
    THEN [status |-> "UnsupportedVersion", detail |-> U16FromLe(SubSeq(secret, 22, 23)),
          sk |-> <<>>, pk |-> <<>>]
    ELSE IF secret[24] # U8From(format)
    THEN [status |-> "NetworkMismatch", detail |-> secret[24], sk |-> <<>>, pk |-> <<>>]
    ELSE IF ~IsCurvePoint(SubSeq(secret, 57, 88))
    THEN [status |-> "InvalidKeyEncoding", detail |-> 0, sk |-> <<>>, pk |-> <<>>]
    ELSE [status |-> "ok", detail |-> 0,
          sk |-> SubSeq(secret, 25, 56), pk |-> SubSeq(secret, 57, 88)]

\* ACL::Inspect: the regular expression
\* ^Ledgeracio version ([1-9][0-9]*) public key for network ([[:alpha:]]+)\n([[:alnum:]/+]+=)\n$
\* matched against the public key file: whether it matches, and its captures.
PublicCaptures(pk) ==
    LET e1 == DigitSpan(pk, 20)
        e2 == AlphaSpan(pk, e1 + 24)
        e3 == B64Span(pk, e2 + 1)
    IN  IF /\ StartsWith(pk, <<76, 101, 100, 103, 101, 114, 97, 99, 105, 111, 32,
                               118, 101, 114, 115, 105, 111, 110, 32>>)
           /\ e1 > 20
           /\ pk[20] # 48
           /\ Len(pk) >= e1 + 23
           /\ SubSeq(pk, e1, e1 + 23) =
                  <<32, 112, 117, 98, 108, 105, 99, 32, 107, 101, 121, 32,
                    102, 111, 114, 32, 110, 101, 116, 119, 111, 114, 107, 32>>
           /\ e2 > e1 + 24
           /\ Len(pk) >= e2
           /\ pk[e2] = 10
           /\ e3 > e2 + 1
           /\ Len(pk) = e3 + 1
           /\ pk[e3] = 61
           /\ pk[e3 + 1] = 10
        THEN [matches |-> TRUE, version |-> SubSeq(pk, 20, e1 - 1),
              network |-> SubSeq(pk, e1 + 24, e2 - 1), data |-> SubSeq(pk, e2 + 1, e3)]
        ELSE [matches |-> FALSE, version |-> <<>>, network |-> <<>>, data |-> <<>>]

\* ACL::Inspect, from the regular expression to PublicKey::from_bytes: the
\* network and key of a public key file.  A status "panic" is the assert_eq!
\* or the slice overflow aborting the program.
ReadPublic(pk) ==
    LET c == PublicCaptures(pk)
        format == FormatFromName(ToAsciiLowercase(c.network))
        d == Base64DecodeSlice(c.data, 32)
    IN  IF ~c.matches THEN [status |-> "InvalidPublicKey", format |-> "", key |-> <<>>]
        ELSE IF c.version # <<49>>
        THEN [status |-> "UnsupportedVersion", format |-> "", key |-> <<>>]
        ELSE IF format = "" THEN [status |-> "UnknownNetwork", format |-> "", key |-> <<>>]
        ELSE IF d.kind = "err"
        THEN [status |-> "InvalidKeyEncoding", format |-> format, key |-> <<>>]
        ELSE IF d.kind = "panic" \/ Len(d.bytes) # 32
        THEN [status |-> "panic", format |-> format, key |-> <<>>]
        ELSE IF ~IsCurvePoint(d.bytes)
        THEN [status |-> "InvalidKeyEncoding", format |-> format, key |-> <<>>]
        ELSE [status |-> "ok", format |-> format, key |-> d.bytes]

\* ACL::SetKey: ed25519_dalek::PublicKey::from_bytes(&*fs::read(key)?)
SetKeyBytes(file) ==
    IF ~file.exists THEN [status |-> "IOError", key |-> <<>>]
    ELSE IF ~IsCurvePoint(file.data) THEN [status |-> "InvalidKeyEncoding", key |-> <<>>]
    ELSE [status |-> "ok", key |-> file.data]

(***************************************************************************)
(* The allowlist text.  A line is a sequence of items: a character         *)
(* [ch |-> its code], or one whole SS58 address [ch |-> 0, net, id], the   *)
(* text that sp_core renders for the account id under the network tag net. *)
(***************************************************************************)
Ch(c) == [ch |-> c, net |-> 0, id |-> <<>>]

\* Ss58Codec::to_ss58check_with_version
Ss58Text(id, format) == [ch |-> 0, net |-> U8From(format), id |-> id]

IsSpace(item) == item.ch = 32 \/ item.ch = 9

RECURSIVE TrimStart(_)
TrimStart(line) ==
    IF Len(line) > 0 /\ IsSpace(line[1]) THEN TrimStart(Drop(line, 1)) ELSE line

RECURSIVE TrimEnd(_)
TrimEnd(line) ==
    IF Len(line) > 0 /\ IsSpace(line[Len(line)]) THEN TrimEnd(Take(line, Len(line) - 1)) ELSE line

Trim(line) == TrimEnd(TrimStart(line))

IsComment(line) == Len(line) = 0 \/ line[1].ch = 59 \/ line[1].ch = 35

\* Ss58Codec::from_string_with_version on a trimmed line
IsAddress(line) == Len(line) = 1 /\ line[1].ch = 0 /\ Len(line[1].id) = 32

\* Canonicalize with an account id that comes again later in the text left
\* out
RECURSIVE CanonicalizeOnce(_, _, _)
CanonicalizeOnce(text, format, lineno) ==
    IF Len(text) = 0 THEN [status |-> "ok", list |-> <<>>, line |-> 0]
    ELSE LET l == Trim(text[1])
             rest == CanonicalizeOnce(Drop(text, 1), format, lineno + 1)
         IN  IF IsComment(l) THEN rest
             ELSE IF ~IsAddress(l)
             THEN [status |-> "InvalidAddress", list |-> <<>>, line |-> lineno]
             ELSE IF l[1].net # U8From(format)
             THEN [status |-> "NetworkMismatch", list |-> <<>>, line |-> lineno]
             ELSE IF rest.status # "ok" THEN rest
             ELSE IF \E i \in 1..Len(rest.list) : rest.list[i] = l[1].id THEN rest
             ELSE [status |-> "ok", list |-> <<l[1].id>> \o rest.list, line |-> 0]

\* parser: the canonical list of a text for one network, or the first line
\* that is no address (InvalidAddress) or is for another network
\* (NetworkMismatch); line is the number of that line.
RECURSIVE Canonicalize(_, _, _)
Canonicalize(text, format, lineno) ==
    IF Len(text) = 0 THEN [status |-> "ok", list |-> <<>>, line |-> 0]
    ELSE LET l == Trim(text[1])
             rest == Canonicalize(Drop(text, 1), format, lineno + 1)
         IN  IF IsComment(l) THEN rest
             ELSE IF ~IsAddress(l)
             THEN [status |-> "InvalidAddress", list |-> <<>>, line |-> lineno]
             ELSE IF l[1].net # U8From(format)
             THEN [status |-> "NetworkMismatch", list |-> <<>>, line |-> lineno]
             ELSE IF rest.status # "ok" THEN rest
             ELSE [status |-> "ok", list |-> <<l[1].id>> \o rest.list, line |-> 0]

RECURSIVE Concat(_)
Concat(ids) == IF Len(ids) = 0 THEN <<>> ELSE ids[1] \o Concat(Drop(ids, 1))

\* parser: network tag, nonce (little-endian), the account ids
Payload(list, format, nonce) == <<U8From(format)>> \o U32ToLe(nonce) \o Concat(list)

\* parser::parse(file, network, &pk, &sk, nonce): the signed artifact of a
\* text, its 64-byte signature kept apart from the bytes it covers
ParserParse(text, format, pk, sk, nonce) ==
    LET c == Canonicalize(text, format, 1)
        body == Payload(c.list, format, nonce)
    IN  IF PublicOf(sk) # pk
        THEN [status |-> "KeyMismatch", data |-> NoArtifact.data]
        ELSE IF c.status # "ok" THEN [status |-> c.status, data |-> NoArtifact.data]
        ELSE [status |-> "ok", data |-> [body |-> body, sig |-> Ed25519Sign(sk, pk, body)]]

RECURSIVE Chunks(_)
Chunks(bytes) ==
    IF Len(bytes) = 0 THEN <<>> ELSE <<Take(bytes, 32)>> \o Chunks(Drop(bytes, 32))

\* parser::inspect(file, network, &pk): the address texts of a signed
\* artifact, in its order
ParserInspect(data, format, pk) ==
    IF Len(data.body) + 64 < 5 + 64
    THEN [status |-> "TruncatedArtifact", list |-> <<>>]
    ELSE IF data.body[1] # U8From(format)
    THEN [status |-> "NetworkMismatch", list |-> <<>>]
    ELSE IF ~Ed25519Verify(pk, data.body, data.sig)
    THEN [status |-> "InvalidSignature", list |-> <<>>]
    ELSE IF (Len(data.body) - 5) % 32 # 0
    THEN [status |-> "MalformedPayload", list |-> <<>>]
    ELSE LET ids == Chunks(Drop(data.body, 5))
         IN  [status |-> "ok", list |-> [i \in 1..Len(ids) |-> Ss58Text(ids[i], format)]]

(***************************************************************************)
(* The key-custody device (HardStore).                                     *)
(***************************************************************************)
NoKey == <<>>

\* HardStore::set_pubkey: fails when a key is set already
HardSetPubkey(stored, key) ==
    IF stored # NoKey THEN [status |-> "KeyAlreadySet", stored |-> stored]
    ELSE [status |-> "ok", stored |-> key]

\* HardStore::get_pubkey: fails unless a key is set
HardGetPubkey(stored) ==
    IF stored = NoKey THEN [status |-> "NoKeySet", key |-> <<>>]
    ELSE [status |-> "ok", key |-> stored]

(***************************************************************************)
(* The commands, as functions of the files they find.                      *)
(***************************************************************************)
\* ACL::GenKey.  ext: the given file name carries an extension.
GenKeyResult(pub, sec, format, secretkey, ext) ==
    LET publickey == PublicOf(secretkey)
    IN  IF ext THEN [status |-> "InvalidFilename", pub |-> pub, sec |-> sec]
        ELSE IF NetworkName(format) = <<>>
        THEN [status |-> "panic", pub |-> pub, sec |-> sec]
        ELSE IF ~CanOpenForWrite(pub) THEN [status |-> "IOError", pub |-> pub, sec |-> sec]
        ELSE IF ~CanOpenForWrite(sec)
        THEN [status |-> "IOError", pub |-> write(PublicText(format, publickey), pub),
              sec |-> sec]
        ELSE [status |-> "ok", pub |-> write(PublicText(format, publickey), pub),
              sec |-> write(SecretBytes(format, secretkey, publickey), sec)]

\* fs::write(output, signed): creates the file (0o644 under the usual umask)
\* or truncates it
FsWrite(f, data) == [OpenTrunc(f, 420, data) EXCEPT !.data = data]

\* SignWithKey with the error of parser::parse dropped: what the parser
\* returned is written to the output whether it signed or not
SignWithKeyUnchecked(secret, k, format, text, nonce, art) ==
    LET signed == ParserParse(text, format, k.pk, k.sk, nonce)
    IN  IF ~secret.exists
        THEN [status |-> "IOError", stage |-> "secret", detail |-> 0, art |-> art]
        ELSE IF k.status # "ok"
        THEN [status |-> k.status, stage |-> "secret", detail |-> k.detail, art |-> art]
        ELSE IF ~CanOpenForWrite(art)
        THEN [status |-> "IOError", stage |-> "output", detail |-> 0, art |-> art]
        ELSE [status |-> "ok", stage |-> "output", detail |-> 0,
              art |-> FsWrite(art, signed.data)]

\* ACL::Sign from parser::parse on, k being what ReadSecret made of the
\* secret key file.  stage: the step that ended the command (the secret key
\* file, the allowlist, the output).
SignWithKey(secret, k, format, text, nonce, art) ==
    LET signed == ParserParse(text, format, k.pk, k.sk, nonce)
    IN  IF ~secret.exists
        THEN [status |-> "IOError", stage |-> "secret", detail |-> 0, art |-> art]
        ELSE IF k.status # "ok"
        THEN [status |-> k.status, stage |-> "secret", detail |-> k.detail, art |-> art]
        ELSE IF signed.status # "ok"
        THEN [status |-> signed.status, stage |-> "allowlist", detail |-> 0, art |-> art]
        ELSE IF ~CanOpenForWrite(art)
        THEN [status |-> "IOError", stage |-> "output", detail |-> 0, art |-> art]
        ELSE [status |-> "ok", stage |-> "output", detail |-> 0,
              art |-> FsWrite(art, signed.data)]

\* ACL::Sign
SignResult(secret, format, text, nonce, art) ==
    SignWithKey(secret, ReadSecret(secret.data, format), format, text, nonce, art)

\* InspectWithKey with the error of parser::inspect dropped: what the parser
\* returned is written out whether it verified the artifact or not
InspectWithKeyUnverified(art, pub, k, toFile, out) ==
    LET opened == IF toFile THEN OpenTrunc(out, 384, <<>>) ELSE out
        r == ParserInspect(art.data, k.format, k.key)
        text == [i \in 1..Len(r.list) |-> <<r.list[i]>>]
    IN  IF ~art.exists \/ ~pub.exists
        THEN [status |-> "IOError", out |-> out, stdout |-> <<>>]
        ELSE IF k.status # "ok" THEN [status |-> k.status, out |-> out, stdout |-> <<>>]
        ELSE IF toFile /\ ~CanOpenForWrite(out)
        THEN [status |-> "IOError", out |-> out, stdout |-> <<>>]
        ELSE IF toFile
        THEN [status |-> "ok", out |-> [opened EXCEPT !.data = text], stdout |-> <<>>]
        ELSE [status |-> "ok", out |-> out, stdout |-> text]

\* ACL::Inspect from the opening of the output on, k being what ReadPublic
\* made of the public key file.  toFile: --output is given.
InspectWithKey(art, pub, k, toFile, out) ==
    LET opened == IF toFile THEN OpenTrunc(out, 384, <<>>) ELSE out
        r == ParserInspect(art.data, k.format, k.key)
        text == [i \in 1..Len(r.list) |-> <<r.list[i]>>]
    IN  IF ~art.exists \/ ~pub.exists
        THEN [status |-> "IOError", out |-> out, stdout |-> <<>>]
        ELSE IF k.status # "ok" THEN [status |-> k.status, out |-> out, stdout |-> <<>>]
        ELSE IF toFile /\ ~CanOpenForWrite(out)
        THEN [status |-> "IOError", out |-> out, stdout |-> <<>>]
        ELSE IF r.status # "ok" THEN [status |-> r.status, out |-> opened, stdout |-> <<>>]
        ELSE IF toFile
        THEN [status |-> "ok", out |-> [opened EXCEPT !.data = text], stdout |-> <<>>]
        ELSE [status |-> "ok", out |-> out, stdout |-> text]

\* ACL::Inspect.  The network of the command line is not among the
\* arguments: the code reads the network from the public key file.
InspectResult(art, pub, toFile, out) ==
    InspectWithKey(art, pub, ReadPublic(pub.data), toFile, out)

\* SetKeyResult with the result of set_pubkey dropped: the command reports
\* success whatever the device answered
SetKeyResultIgnoring(file, device, stored) ==
    LET k == SetKeyBytes(file)
        h == HardSetPubkey(stored, k.key)
    IN  IF k.status # "ok" THEN [status |-> k.status, stored |-> stored]
        ELSE IF ~device THEN [status |-> "DeviceError", stored |-> stored]
        ELSE [status |-> "ok", stored |-> h.stored]

\* ACL::SetKey.  device: HardStore::new succeeds.
SetKeyResult(file, device, stored) ==
    LET k == SetKeyBytes(file)
        h == HardSetPubkey(stored, k.key)
    IN  IF k.status # "ok" THEN [status |-> k.status, stored |-> stored]
        ELSE IF ~device THEN [status |-> "DeviceError", stored |-> stored]
        ELSE h

\* ACL::GetKey.  device: HardStore::new succeeds.  stdout: the line
\* "Public key is {}" of the stored key in hexadecimal.
GetKeyResult(device, stored) ==
    LET h == HardGetPubkey(stored)
    IN  IF ~device THEN [status |-> "DeviceError", stdout |-> <<>>]
        ELSE IF h.status # "ok" THEN [status |-> h.status, stdout |-> <<>>]
        ELSE [status |-> "ok",
              stdout |-> <<<<80, 117, 98, 108, 105, 99, 32, 107, 101, 121, 32, 105, 115, 32>>
                           \o HexEncode(h.key)>>]

\* Ss58AddressFormat::try_from(u8), of the network byte of a parsed address
FormatFromU8(v) ==
    CASE v = 0 -> "PolkadotAccount"
      [] v = 2 -> "KusamaAccount"
      [] v = 42 -> "SubstrateAccount"
      [] OTHER -> ""

\* the first address of a validator set that is not of the network format,
\* or 0
RECURSIVE FirstOtherNetwork(_, _, _)
FirstOtherNetwork(set, format, i) ==
    IF i > Len(set) THEN 0
    ELSE IF FormatFromU8(set[i].net) # format THEN i
    ELSE FirstOtherNetwork(set, format, i + 1)

\* Nominator::Nominate without the check of the empty set, as Stash::Nominate
\* is written
NominateResultUnguarded(set, format, fault, sent) ==
    LET other == FirstOtherNetwork(set, format, 1)
    IN  IF fault \in {"path", "device", "signer"}
        THEN [status |-> "DeviceError", detail |-> 0, sent |-> sent]
        ELSE IF other # 0 /\ FormatFromU8(set[other].net) = ""
        THEN [status |-> "panic", detail |-> other, sent |-> sent]
        ELSE IF other # 0
        THEN [status |-> "NetworkMismatch", detail |-> other, sent |-> sent]
        ELSE IF fault \in {"client", "submit"}
        THEN [status |-> "ClientError", detail |-> 0, sent |-> sent]
        ELSE [status |-> "ok", detail |-> 0,
              sent |-> Append(sent, [i \in 1..Len(set) |-> set[i].id])]

\* Nominator::Nominate.  set: the parsed addresses, each [id, net]; fault:
\* the call of a collaborator that fails (LedgeracioPath::new, keystore(),
\* signer(), client.await, nominate()), or "none"; sent: the transactions on
\* the chain.  detail is the place in the set of the address the error names.
NominateResult(set, format, fault, sent) ==
    LET other == FirstOtherNetwork(set, format, 1)
    IN  IF fault \in {"path", "device", "signer"}
        THEN [status |-> "DeviceError", detail |-> 0, sent |-> sent]
        ELSE IF Len(set) = 0
        THEN [status |-> "EmptySet", detail |-> 0, sent |-> sent]
        ELSE IF other # 0 /\ FormatFromU8(set[other].net) = ""
        THEN [status |-> "panic", detail |-> other, sent |-> sent]
        ELSE IF other # 0
        THEN [status |-> "NetworkMismatch", detail |-> other, sent |-> sent]
        ELSE IF fault \in {"client", "submit"}
        THEN [status |-> "ClientError", detail |-> 0, sent |-> sent]
        ELSE [status |-> "ok", detail |-> 0,
              sent |-> Append(sent, [i \in 1..Len(set) |-> set[i].id])]

(***************************************************************************)
(* The inputs of the commands.                                             *)
(***************************************************************************)
Nonces == {1, 258}

\* the lines of the allowlists given to Sign: "#x" and addresses
Lines ==
    {<<Ch(35), Ch(120)>>,
     <<Ch(32), Ss58Text(Repeat(161, 32), "KusamaAccount"), Ch(32)>>,
     <<Ss58Text(Repeat(178, 32), "KusamaAccount")>>,
     <<Ss58Text(Repeat(161, 32), "PolkadotAccount")>>}

Texts(n) == UNION {[1..k -> Lines] : k \in 0..n}

\* lines of every kind the canonicalizer tells apart: empty, blank, the
\* comments " ;x" and "#", an address between blanks, a bare address, an
\* address of the other network, and "x;", which is neither
CanonLines ==
    {<<>>,
     <<Ch(32), Ch(9)>>,
     <<Ch(32), Ch(59), Ch(120)>>,
     <<Ch(35)>>,
     <<Ch(9), Ss58Text(Repeat(161, 32), "KusamaAccount"), Ch(32)>>,
     <<Ss58Text(Repeat(178, 32), "KusamaAccount")>>,
     <<Ss58Text(Repeat(161, 32), "PolkadotAccount")>>,
     <<Ch(120), Ch(59)>>}

CanonTexts(n) == UNION {[1..k -> CanonLines] : k \in 0..n}

Patch(bytes, at, new) == [i \in 1..Len(bytes) |-> IF i >= at /\ i < at + Len(new) THEN new[i - at + 1] ELSE bytes[i]]

OtherKey(sk) == CHOOSE k \in SecretKeys : k # sk

\* The files a user may name as --secret: the file on disk, and wrong files
\* made from it.
SecretInputs(f) ==
    IF ~f.exists \/ Len(f.data) # 88 THEN {[name |-> "disk", file |-> f]}
    ELSE LET d == f.data
             With(n, x) == [name |-> n, file |-> [f EXCEPT !.data = x]]
         IN  {With("disk", d),
              With("short", Take(d, 87)),
              With("long", d \o <<0>>),
              With("empty", <<>>),
              With("magic", Patch(d, 1, <<108>>)),
              With("version", Patch(d, 22, <<2, 0>>)),
              With("tag", Patch(d, 24, <<2 - d[24]>>)),
              With("pubswap", Patch(d, 57, PublicOf(OtherKey(SubSeq(d, 25, 56))))),
              With("pubbad", Patch(d, 57, <<0>>))}

\* the addresses given to Nominate, as parse_address returns them: two of
\* Kusama, one of Polkadot, one of Substrate
Addresses ==
    {[id |-> Repeat(161, 32), net |-> 2], [id |-> Repeat(178, 32), net |-> 2],
     [id |-> Repeat(161, 32), net |-> 0], [id |-> Repeat(161, 32), net |-> 42]}

ValidatorSets(n) == UNION {[1..k -> Addresses] : k \in 0..n}

\* the calls of Nominate to its collaborators, one of which may fail
NominateFaults == {"none", "path", "device", "signer", "client", "submit"}

\* The parts of a secret key file that may be wrong, one for each check of
\* Sign.
Faults == {"length", "magic", "version", "tag", "key"}

\* the bytes d of a secret key file with the faults of F: a byte too many
\* ("length"), another first letter ("magic"), version 0 1, which is 256
\* ("version"), the tag of the other network ("tag"), no curve point in the
\* place of the public key ("key")
Damaged(d, F) ==
    LET d1 == IF "magic" \in F THEN Patch(d, 1, <<108>>) ELSE d
        d2 == IF "version" \in F THEN Patch(d1, 22, <<0, 1>>) ELSE d1
        d3 == IF "tag" \in F THEN Patch(d2, 24, <<2 - d[24]>>) ELSE d2
        d4 == IF "key" \in F THEN Patch(d3, 57, <<0>>) ELSE d3
    IN  IF "length" \in F THEN d4 \o <<0>> ELSE d4

\* The files a user may name as --secret that are wrong in several parts at
\* once.
DamagedSecrets(f) ==
    IF ~f.exists \/ Len(f.data) # 88 THEN {[name |-> {}, file |-> f]}
    ELSE {[name |-> F, file |-> [f EXCEPT !.data = Damaged(f.data, F)]] : F \in SUBSET Faults}

\* The files a user may name as --public.
PublicInputs(f) ==
    LET k == ReadPublic(f.data)
        With(n, x) == [name |-> n, file |-> [f EXCEPT !.data = x]]
    IN  IF ~f.exists \/ k.status # "ok" THEN {[name |-> "disk", file |-> f]}
        ELSE {With("disk", f.data),
              With("version", Patch(f.data, 20, <<50>>)),
              With("upper", Patch(f.data, 46, <<f.data[46] - 32>>)),
              With("unknown", Patch(f.data, 45, <<88>>)),
              With("short", PublicText(k.format, Take(k.key, 29))),
              With("long", PublicText(k.format, k.key \o <<1, 2, 3>>)),
              With("lastsymbol", Patch(f.data, Len(f.data) - 2, <<66>>)),
              With("notpoint", PublicText(k.format, Patch(k.key, 1, <<0>>))),
              With("otherkey", PublicText(k.format, PublicOf(Repeat(99, 32)))),
              With("othernet", PublicText(IF k.format = "KusamaAccount"
                                           THEN "PolkadotAccount" ELSE "KusamaAccount", k.key))}

\* The files a user may name as the allowlist to inspect.
ArtifactInputs(f) ==
    LET d == f.data
        With(n, x) == [name |-> n, file |-> [f EXCEPT !.data = x]]
    IN  IF ~f.exists THEN {[name |-> "disk", file |-> f]}
        ELSE {With("disk", d),
              With("truncated", [d EXCEPT !.body = Take(d.body, 4)]),
              With("odd", [body |-> d.body \o <<0>>,
                           sig |-> Ed25519Sign(d.sig.key, d.sig.pub, d.body \o <<0>>)])}

(***************************************************************************)
(* The state machine: one action per command of `ledgeracio allowlist`,    *)
(* for each kind of file the user names.                                   *)
(***************************************************************************)
\* the record of a command: its name, the --network given, how it ended, the
\* value its error names, its other arguments, and what it printed
Result(cmd, network, status, detail, arg, stdout) ==
    [cmd |-> cmd, net |-> network, status |-> status, detail |-> detail,
     arg |-> arg, stdout |-> stdout]

\* a file left at the path of file.sec by an earlier program
StaleFiles == {NoFile, [exists |-> TRUE, mode |-> 420, data |-> <<111, 108, 100>>],
               [exists |-> TRUE, mode |-> 256, data |-> <<111, 108, 100>>]}

Init ==
    /\ pubF = NoFile
    /\ secF = NoFile
    /\ artF = NoArtifact
    /\ outF = NoFile
    /\ hw = NoKey
    /\ chain = <<>>
    /\ res = Result("none", "", "ok", 0, "", <<>>)

InitStale ==
    /\ pubF = NoFile
    /\ secF \in StaleFiles
    /\ artF = NoArtifact
    /\ outF = NoFile
    /\ hw = NoKey
    /\ chain = <<>>
    /\ res = Result("none", "", "ok", 0, "", <<>>)

GenKey ==
    \E network \in Network, secretkey \in SecretKeys, ext \in BOOLEAN :
        \E r \in {GenKeyResult(pubF, secF, AddressFormat(network), secretkey, ext)} :
            /\ pubF' = r.pub
            /\ secF' = r.sec
            /\ res' = Result("GenKey", network, r.status, 0, PublicOf(secretkey), <<>>)
            /\ UNCHANGED <<artF, outF, hw, chain>>

\* Sign with the key k read from secret.  The record keeps the canonical list
\* that the text stands for, not the text.
SignCmd(network, nonce, text, secret, k) ==
    \E r \in {SignWithKey(secret.file, k, AddressFormat(network), text, nonce, artF)} :
        /\ artF' = r.art
        /\ res' = Result("Sign", network, r.status, [stage |-> r.stage, value |-> r.detail],
                         [secret |-> secret.name, exists |-> secret.file.exists,
                          len |-> Len(secret.file.data),
                          list |-> Canonicalize(text, AddressFormat(network), 1)], <<>>)
        /\ UNCHANGED <<pubF, secF, outF, hw, chain>>

\* Sign with the file.sec on disk
Sign ==
    \E network \in Network :
        \E k \in {ReadSecret(secF.data, AddressFormat(network))} :
            \E nonce \in Nonces, text \in Texts(MaxLines) :
                SignCmd(network, nonce, text, [name |-> "disk", file |-> secF], k)

SignShort ==
    \E network \in Network :
        \E k \in {ReadSecret(secF.data, AddressFormat(network))} :
            \E nonce \in Nonces, text \in Texts(MaxShort) :
                SignCmd(network, nonce, text, [name |-> "disk", file |-> secF], k)

\* Sign of a text of any kind of line, with the file.sec on disk, into an
\* output that does not exist yet.  The record keeps the text as well.  It is
\* the first Sign: one that failed changed no file, and a Sign after it does
\* what it does here.
SignText ==
    /\ ~artF.exists
    /\ res.cmd # "Sign"
    /\ \E network \in Network :
        \E k \in {ReadSecret(secF.data, AddressFormat(network))} :
            \E text \in CanonTexts(MaxCanon) :
                \E r \in {SignWithKey(secF, k, AddressFormat(network), text, 1, artF)} :
                    /\ artF' = r.art
                    /\ res' = Result("Sign", network, r.status,
                                     [stage |-> r.stage, value |-> r.detail],
                                     [secret |-> "disk", exists |-> secF.exists,
                                      len |-> Len(secF.data),
                                      list |-> Canonicalize(text, AddressFormat(network), 1),
                                      text |-> text], <<>>)
                    /\ UNCHANGED <<pubF, secF, outF, hw, chain>>

\* Sign of the empty allowlist or of one address with a secret key file that
\* is wrong in several parts.  The record keeps the faults of the file and
\* the bytes of its version and tag.
SignDamaged ==
    \E secret \in DamagedSecrets(secF), network \in Network :
        \E k \in {ReadSecret(secret.file.data, AddressFormat(network))} :
            \E text \in {<<>>, <<<<Ss58Text(Repeat(178, 32), "KusamaAccount")>>>>} :
                \E r \in {SignWithKey(secret.file, k, AddressFormat(network), text, 1, artF)} :
                    /\ artF' = r.art
                    /\ res' = Result("Sign", network, r.status,
                                     [stage |-> r.stage, value |-> r.detail],
                                     [secret |-> "damaged", exists |-> secret.file.exists,
                                      len |-> Len(secret.file.data),
                                      list |-> Canonicalize(text, AddressFormat(network), 1),
                                      faults |-> secret.name,
                                      version |-> IF Len(secret.file.data) >= 24
                                                  THEN SubSeq(secret.file.data, 22, 23)
                                                  ELSE <<>>,
                                      tag |-> IF Len(secret.file.data) >= 24
                                              THEN secret.file.data[24] ELSE 0], <<>>)
                    /\ UNCHANGED <<pubF, secF, outF, hw, chain>>

\* Sign with another file as the secret key
SignOther ==
    \E secret \in SecretInputs(secF), network \in Network :
        \E k \in {ReadSecret(secret.file.data, AddressFormat(network))} :
            \E text \in Texts(1) : SignCmd(network, 1, text, secret, k)

\* Inspect with the key k read from pub.  The network of the command line
\* reaches no step of Inspect: it is drawn last.
InspectCmd(toFile, art, pub, k) ==
    \E r \in {InspectWithKey(art.file, pub.file, k, toFile, outF)} :
        \E network \in Network :
            /\ outF' = r.out
            /\ res' = Result("Inspect", network, r.status, 0,
                             [file |-> art.name, public |-> pub.name, toFile |-> toFile],
                             r.stdout)
            /\ UNCHANGED <<pubF, secF, artF, hw, chain>>

\* Inspect the artifact on disk, with file.pub or another public key file
Inspect ==
    \E pub \in PublicInputs(pubF) :
        \E k \in {ReadPublic(pub.file.data)}, toFile \in BOOLEAN :
            InspectCmd(toFile, [name |-> "disk", file |-> artF], pub, k)

\* Inspect another file with file.pub
InspectOther ==
    \E k \in {ReadPublic(pubF.data)} :
        \E art \in ArtifactInputs(artF), toFile \in BOOLEAN :
            InspectCmd(toFile, art, [name |-> "disk", file |-> pubF], k)

\* the part of the artifact that byte at of its signed bytes belongs to
Region(at) == IF at = 1 THEN "tag" ELSE IF at <= 5 THEN "nonce" ELSE "ids"

\* Inspect the artifact on disk with one bit of its signed bytes flipped
InspectFlipped ==
    /\ artF.exists
    /\ \E k \in {ReadPublic(pubF.data)} :
        \E at \in 1..Len(artF.data.body), bit \in 0..7, toFile \in BOOLEAN :
            InspectCmd(toFile,
                       [name |-> Region(at),
                        file |-> [artF EXCEPT !.data.body[at] = FlipBit(artF.data.body[at], bit)]],
                       [name |-> "disk", file |-> pubF], k)

\* Inspect the artifact on disk with one bit of its signature flipped
InspectFlippedSignature ==
    /\ artF.exists
    /\ \E k \in {ReadPublic(pubF.data)} :
        \E at \in 0..511, toFile \in BOOLEAN :
            InspectCmd(toFile,
                       [name |-> "signature", file |-> [artF EXCEPT !.data.sig.flips = {at}]],
                       [name |-> "disk", file |-> pubF], k)

\* the files a user may name as the key of SetKey: file.pub, or the 32 raw
\* bytes of a public key
KeyInputs ==
    {[name |-> "pub", file |-> pubF]}
    \cup {[name |-> "raw", file |-> [exists |-> TRUE, mode |-> 420, data |-> PublicOf(sk)]] :
            sk \in SecretKeys}

SetKey ==
    \E network \in Network, key \in KeyInputs, device \in BOOLEAN :
        \E r \in {SetKeyResult(key.file, device, hw)} :
            /\ hw' = r.stored
            /\ res' = Result("SetKey", network, r.status, 0,
                             [key |-> key.name, bytes |-> key.file.data], <<>>)
            /\ UNCHANGED <<pubF, secF, artF, outF, chain>>

GetKey ==
    \E network \in Network, device \in BOOLEAN :
        \E r \in {GetKeyResult(device, hw)} :
            /\ res' = Result("GetKey", network, r.status, 0, "", r.stdout)
            /\ UNCHANGED <<pubF, secF, artF, outF, hw, chain>>

\* Nominator::Nominate, until the first transaction is on the chain
Nominate ==
    /\ chain = <<>>
    /\ \E network \in Network, set \in ValidatorSets(MaxSet), fault \in NominateFaults :
        \E r \in {NominateResult(set, AddressFormat(network), fault, chain)} :
            /\ chain' = r.sent
            /\ res' = Result("Nominate", network, r.status, r.detail,
                             [set |-> set, fault |-> fault], <<>>)
            /\ UNCHANGED <<pubF, secF, artF, outF, hw>>

\* key generation and signing
Next == GenKey \/ Sign \/ SignOther

Spec == Init /\ [][Next]_vars

\* key generation over stale files, and key custody
NextKeys == GenKey \/ SetKey \/ GetKey

SpecKeys == InitStale /\ [][NextKeys]_vars

\* signing and inspection
NextInspect == GenKey \/ SignShort \/ Inspect \/ InspectOther

SpecInspect == Init /\ [][NextInspect]_vars

\* signing, and inspection of a tampered artifact
NextTamper == GenKey \/ SignShort \/ InspectFlipped \/ InspectFlippedSignature

SpecTamper == Init /\ [][NextTamper]_vars

\* key generation, and signing of texts of every kind of line
NextCanon == GenKey \/ SignText

SpecCanon == Init /\ [][NextCanon]_vars

\* key generation, and signing with secret key files wrong in several parts
NextSecret == GenKey \/ SignDamaged

SpecSecret == Init /\ [][NextSecret]_vars

\* nomination
NextNominate == Nominate

SpecNominate == Init /\ [][NextNominate]_vars

(***************************************************************************)
(* Properties.                                                             *)
(***************************************************************************)
\* the last command was Inspect of the artifact and the public key file that
\* are on disk
InspectedDisk ==
    /\ res.cmd = "Inspect"
    /\ res.arg.file = "disk"
    /\ res.arg.public = "disk"
    /\ artF.exists
    /\ pubF.exists

\* C1: an Inspect of an artifact whose network tag is not the one of the
\* --network of the command fails with NetworkMismatch and prints no address.
C1_InspectChecksCommandNetwork ==
    (InspectedDisk /\ artF.data.body[1] # U8From(AddressFormat(res.net)))
        => (res.status = "NetworkMismatch" /\ res.stdout = <<>>)

\* the last command was a Sign that wrote the artifact, with the file.sec on disk
SignedDisk ==
    /\ res.cmd = "Sign"
    /\ res.status = "ok"
    /\ res.arg.secret = "disk"

\* the address texts that Inspect prints for the artifact and file.pub on disk
Inspected == InspectResult(artF, pubF, FALSE, outF)

\* C2: round trip.  After Sign made the artifact of the canonical list L for
\* network N, Inspect with the public key file of the same GenKey succeeds,
\* and its output, canonicalized for N, is L.
C2_RoundTrip ==
    SignedDisk =>
        /\ Inspected.status = "ok"
        /\ Canonicalize(Inspected.stdout, AddressFormat(res.net), 1) = res.arg.list

\* C2 happens: a list of two entries, the greater first, was signed and both
\* addresses come back.
C2_Witness ==
    /\ SignedDisk
    /\ res.arg.list.list = <<Repeat(178, 32), Repeat(161, 32)>>
    /\ Len(Inspected.stdout) = 2

\* the last command was Inspect of the artifact on disk with one bit flipped
InspectedFlipped ==
    /\ res.cmd = "Inspect"
    /\ res.arg.file \in {"tag", "nonce", "ids", "signature"}

\* no address came out of the last command, on stdout or in the output file
NoAddressOut ==
    /\ res.stdout = <<>>
    /\ res.arg.toFile => outF.data = <<>>

\* C3 as stated: Inspect of a signed artifact with any one bit of its payload
\* or signature flipped fails with InvalidSignature and yields no address.
C3_TamperIsInvalidSignature ==
    InspectedFlipped => (res.status = "InvalidSignature" /\ NoAddressOut)

\* C3, amended: Inspect of a signed artifact with one bit flipped yields no
\* address and fails, with NetworkMismatch when the bit is in the network tag
\* and with InvalidSignature when it is in the nonce, the account ids or the
\* signature.
C3_TamperDetected ==
    InspectedFlipped =>
        /\ res.status = IF res.arg.file = "tag" THEN "NetworkMismatch" ELSE "InvalidSignature"
        /\ NoAddressOut

\* C3 happens: a bit of an account id of a signed list was flipped and the
\* Inspect into an output file ended with InvalidSignature.
C3_Witness ==
    /\ InspectedFlipped
    /\ res.arg.file = "ids"
    /\ res.arg.toFile
    /\ res.status = "InvalidSignature"
    /\ Len(artF.data.body) = 5 + 32

\* C4: once a key is stored it never changes; a SetKey when a key is stored
\* fails; a SetKey that succeeds found no key and stores the key it was given;
\* a GetKey when no key is stored fails, and a GetKey succeeds only when a key
\* is stored.
C4_KeyLifecycle ==
    [][/\ hw # NoKey => hw' = hw
       /\ (res'.cmd = "SetKey" /\ hw # NoKey) => res'.status # "ok"
       /\ (res'.cmd = "SetKey" /\ res'.status = "ok") => (hw = NoKey /\ hw' = res'.arg.bytes)
       /\ (res'.cmd = "SetKey" /\ res'.status # "ok") => hw' = hw
       /\ (res'.cmd = "GetKey" /\ hw = NoKey) => res'.status # "ok"
       /\ (res'.cmd = "GetKey" /\ res'.status = "ok") => hw # NoKey]_vars

\* C4 happens: a SetKey with a well-formed key other than the stored one was
\* refused.
C4_Witness ==
    /\ res.cmd = "SetKey"
    /\ res.status = "KeyAlreadySet"
    /\ IsCurvePoint(res.arg.bytes)
    /\ res.arg.bytes # hw
    /\ hw # NoKey

\* C5: SetKey on the file.pub that GenKey wrote passes the check of the key's
\* format and gives the generated public key to the device: it is not refused
\* as an invalid key, and when it succeeds the stored key is the key of
\* file.pub.
C5_GeneratedPublicFileSetsKey ==
    (/\ res.cmd = "SetKey"
     /\ res.arg.key = "pub"
     /\ pubF.exists
     /\ res.arg.bytes = pubF.data
     /\ ReadPublic(pubF.data).status = "ok")
        => /\ res.status # "InvalidKeyEncoding"
           /\ res.status = "ok" => hw = ReadPublic(pubF.data).key

\* C6: a GenKey, Sign or Inspect that ends in an error has created, truncated
\* or changed none of the files.
C6_FailureLeavesFiles ==
    [][(res'.cmd \in {"GenKey", "Sign", "Inspect"} /\ res'.status # "ok")
           => UNCHANGED <<pubF, secF, artF, outF>>]_vars

\* C7: after a successful GenKey, neither group nor others may read file.sec.
C7_SecretFileOwnerOnly ==
    (res.cmd = "GenKey" /\ res.status = "ok") => ~OthersMayRead(secF)

\* the tag of --network
Tag(network) == U8From(AddressFormat(network))

\* C8: the file.sec of a successful GenKey for network N is the 88 bytes
\* magic, 1 0, tag of N, secret key, public key; the checks Sign makes of a
\* secret key file accept it for N and give back that secret and public key,
\* and refuse it for another network; a Sign with the file and the network of
\* its tag is not stopped by those checks, and a Sign with another network
\* ends at them with NetworkMismatch and leaves the output as it was.
C8_SecretKeyRoundTrip ==
    [][/\ (res'.cmd = "GenKey" /\ res'.status = "ok") =>
              /\ Len(secF'.data) = 88
              /\ \E sk \in SecretKeys :
                     /\ res'.arg = PublicOf(sk)
                     /\ secF'.data = MAGIC \o <<1, 0>> \o <<Tag(res'.net)>> \o sk \o PublicOf(sk)
                     /\ \A n \in Network :
                            LET k == ReadSecret(secF'.data, AddressFormat(n))
                            IN  IF n = res'.net
                                THEN k = [status |-> "ok", detail |-> 0,
                                          sk |-> sk, pk |-> PublicOf(sk)]
                                ELSE k.status = "NetworkMismatch"
       /\ (res'.cmd = "Sign" /\ res'.arg.secret = "disk" /\ secF.exists) =>
              IF secF.data[24] = Tag(res'.net)
              THEN res'.detail.stage # "secret"
              ELSE /\ res'.status = "NetworkMismatch"
                   /\ res'.detail.stage = "secret"
                   /\ artF' = artF]_vars

\* C8 happens: after an artifact was signed with file.sec, a Sign with the
\* other network was refused.
C8_Witness ==
    /\ res.cmd = "Sign"
    /\ res.arg.secret = "disk"
    /\ res.status = "NetworkMismatch"
    /\ res.detail.stage = "secret"
    /\ secF.exists
    /\ secF.data[24] # Tag(res.net)
    /\ artF.exists

\* C9: a Sign whose secret key file is not 88 bytes long ends with
\* BadKeyLength naming the length of the file, and leaves the output as it was.
C9_ExactLength ==
    [][(res'.cmd = "Sign" /\ res'.arg.exists /\ res'.arg.len # 88) =>
           /\ res'.status = "BadKeyLength"
           /\ res'.detail = [stage |-> "secret", value |-> res'.arg.len]
           /\ artF' = artF]_vars

\* C9 happens: a secret key file of 89 bytes, a good one with a byte added,
\* was refused.
C9_Witness ==
    /\ res.cmd = "Sign"
    /\ res.arg.secret = "long"
    /\ res.arg.len = 89
    /\ res.status = "BadKeyLength"

\* C10: an Inspect with a public key file of the right grammar, version 1 and
\* a known network, whose base64 text decodes to fewer or more than 32 bytes,
\* ends with the error InvalidKeyEncoding and no output.
C10_WrongKeyLengthIsAnError ==
    (/\ res.cmd = "Inspect"
     /\ res.arg.file = "disk"
     /\ artF.exists
     /\ res.arg.public \in {"short", "long"})
        => (res.status = "InvalidKeyEncoding" /\ res.stdout = <<>>)

\* the last command was a Sign with a secret key file that is file.sec, made
\* for the network of the command, with other bytes in the place of its
\* public key
SignedWithOtherPublic ==
    /\ res.cmd = "Sign"
    /\ res.arg.secret \in {"pubswap", "pubbad"}
    /\ secF.data[24] = Tag(res.net)

NonBlank(line) == {i \in 1..Len(line) : line[i].ch # 32 /\ line[i].ch # 9}

\* a line without the blanks before and after it
Core(line) ==
    IF NonBlank(line) = {} THEN <<>>
    ELSE SubSeq(line, CHOOSE i \in NonBlank(line) : \A j \in NonBlank(line) : i <= j,
                      CHOOSE i \in NonBlank(line) : \A j \in NonBlank(line) : i >= j)

\* the numbers of the lines of a text that are neither blank nor comments
Entries(text) ==
    {i \in 1..Len(text) : Core(text[i]) # <<>> /\ Core(text[i])[1].ch \notin {59, 35}}

\* whether a line is one address and nothing else
OneAddress(line) == Len(Core(line)) = 1 /\ Core(line)[1].ch = 0

\* the entries that are no address, or an address of another network than tag
Faulty(text, tag) ==
    {i \in Entries(text) : ~OneAddress(text[i]) \/ Core(text[i])[1].net # tag}

\* the numbers of a set in ascending order
Ascending(S) ==
    CHOOSE f \in [1..Cardinality(S) -> S] : \A i, j \in 1..Cardinality(S) : i < j => f[i] < f[j]

\* what canonicalization has to give for a text and a network tag
Canonical(text, tag) ==
    IF Faulty(text, tag) = {}
    THEN [status |-> "ok",
          list |-> [k \in 1..Cardinality(Entries(text)) |->
                       Core(text[Ascending(Entries(text))[k]])[1].id],
          line |-> 0]
    ELSE LET first == CHOOSE i \in Faulty(text, tag) : \A j \in Faulty(text, tag) : i <= j
         IN  [status |-> IF OneAddress(text[first]) THEN "NetworkMismatch" ELSE "InvalidAddress",
              list |-> <<>>,
              line |-> first]

\* the last command was a Sign of a recorded text
SignedText == res.cmd = "Sign" /\ "text" \in DOMAIN res.arg

\* C12: the canonical list of a text for a network is the account ids of its
\* lines that are neither blank nor comments, in the order of the text, none
\* left out and none moved; a line among them that is no address, or is an
\* address of another network, makes it fail with InvalidAddress or
\* NetworkMismatch naming the first such line, and gives no list.  A Sign that
\* reaches the parser fails with that error and writes nothing, or signs
\* exactly that list.
C12_Canonicalization ==
    SignedText =>
        LET expected == Canonical(res.arg.text, Tag(res.net))
        IN  /\ res.arg.list = expected
            /\ res.detail.stage # "secret" =>
                   IF expected.status = "ok"
                   THEN /\ res.status = "ok"
                        /\ artF.data.body = Payload(expected.list, AddressFormat(res.net), 1)
                        /\ Len(artF.data.body) = 5 + 32 * Cardinality(Entries(res.arg.text))
                   ELSE /\ res.status = expected.status
                        /\ ~artF.exists

\* C12 happens: a text of the same address twice, between blanks, was signed
\* as a list of two equal account ids.
C12_Witness ==
    /\ SignedText
    /\ Len(res.arg.text) = 2
    /\ res.arg.text[1] = res.arg.text[2]
    /\ Len(res.arg.text[1]) = 3
    /\ res.status = "ok"
    /\ res.arg.list.list = <<Repeat(161, 32), Repeat(161, 32)>>

\* the next state is that of a Sign with a secret key file made from file.sec
\* by some faults
SignedDamaged == res'.cmd = "Sign" /\ res'.arg.secret = "damaged" /\ secF.exists

\* C13: of the checks of the secret key file, in the order length, magic,
\* version, network tag, key decoding, the first that fails decides the error
\* of Sign, whatever the later parts of the file are: a byte too many gives
\* BadKeyLength; 88 bytes with a wrong magic give InvalidMagic; a good magic
\* with version bytes 0 1 gives UnsupportedVersion naming 256; good magic and
\* version with the tag of another network than the command's give
\* NetworkMismatch naming the tag; then bytes that are no public key give
\* InvalidKeyEncoding.  Each of them ends Sign before the allowlist is parsed
\* and leaves the output as it was; only a file that passes them all gets to
\* the parser.
C13_CheckOrder ==
    [][SignedDamaged =>
           LET F == res'.arg.faults
               first == IF "length" \in F THEN "BadKeyLength"
                        ELSE IF "magic" \in F THEN "InvalidMagic"
                        ELSE IF "version" \in F THEN "UnsupportedVersion"
                        ELSE IF res'.arg.tag # Tag(res'.net) THEN "NetworkMismatch"
                        ELSE IF "key" \in F THEN "InvalidKeyEncoding"
                        ELSE "none"
           IN  IF first = "none"
               THEN res'.detail.stage # "secret"
               ELSE /\ res'.status = first
                    /\ res'.detail.stage = "secret"
                    /\ artF' = artF
                    /\ first = "BadKeyLength" => res'.detail.value = 89
                    /\ first = "UnsupportedVersion" =>
                           /\ res'.arg.version = <<0, 1>>
                           /\ res'.detail.value = 256
                    /\ first = "NetworkMismatch" => res'.detail.value = res'.arg.tag]_vars

\* C13 happens: a file with a wrong magic, a wrong version, a wrong tag and a
\* bad key was refused with InvalidMagic, after an artifact had been signed.
C13_Witness ==
    /\ res.cmd = "Sign"
    /\ res.arg.secret = "damaged"
    /\ res.arg.faults = {"magic", "version", "tag", "key"}
    /\ res.arg.tag # Tag(res.net)
    /\ res.status = "InvalidMagic"
    /\ artF.exists

\* whether a validator set may be nominated on a network: it is not empty and
\* every address in it carries the tag of the network
Nominable(set, network) ==
    /\ set # <<>>
    /\ \A i \in 1..Len(set) : set[i].net = Tag(network)

\* C14: a Nominate puts a transaction on the chain only when the validator
\* set is not empty and all its addresses are of the network of the command,
\* and the targets of the transaction are then the account ids of the set in
\* its order; a Nominate of an empty set or of a set with an address of
\* another network ends in an error and puts nothing on the chain; a Nominate
\* succeeds exactly when it put its transaction on the chain.
C14_Nominate ==
    [][res'.cmd = "Nominate" =>
           LET set == res'.arg.set
           IN  /\ chain' # chain =>
                      /\ Nominable(set, res'.net)
                      /\ chain' = chain \o <<[i \in 1..Len(set) |-> set[i].id]>>
               /\ ~Nominable(set, res'.net) => (res'.status # "ok" /\ chain' = chain)
               /\ res'.status = "ok" <=> chain' # chain]_vars

\* C14 happens: two Kusama addresses, the greater first, were nominated on
\* Kusama and are the targets on the chain, in that order.
C14_Witness ==
    /\ res.cmd = "Nominate"
    /\ res.net = "Kusama"
    /\ res.status = "ok"
    /\ Len(res.arg.set) = 2
    /\ chain = <<<<Repeat(178, 32), Repeat(161, 32)>>>>

\* the address formats of the two networks the command line accepts
CommandFormats == {"KusamaAccount", "PolkadotAccount"}

\* the network a public key file names, as written
NamedNetwork(file) == PublicCaptures(file.data).network

\* C15: the address format of every command is that of Kusama or of Polkadot;
\* no GenKey ends in the unreachable arm; every file.pub there is names
\* Kusama or Polkadot, and after a successful GenKey the name in file.pub is
\* that of the network whose tag is in file.sec.
C15_NetworkIsKusamaOrPolkadot ==
    /\ res.cmd # "none" => AddressFormat(res.net) \in CommandFormats
    /\ res.cmd = "GenKey" => res.status # "panic"
    /\ pubF.exists =>
           /\ PublicCaptures(pubF.data).matches
           /\ NamedNetwork(pubF) \in {<<75, 117, 115, 97, 109, 97>>,
                                       <<80, 111, 108, 107, 97, 100, 111, 116>>}
    /\ (res.cmd = "GenKey" /\ res.status = "ok") =>
           /\ Len(secF.data) = 88
           /\ FormatFromName(ToAsciiLowercase(NamedNetwork(pubF))) = FormatFromU8(secF.data[24])
           /\ FormatFromU8(secF.data[24]) = AddressFormat(res.net)

\* C15 happens: a GenKey for Polkadot succeeded and its file.pub names
\* Polkadot.
C15_Witness ==
    /\ res.cmd = "GenKey"
    /\ res.net = "Polkadot"
    /\ res.status = "ok"
    /\ NamedNetwork(pubF) = <<80, 111, 108, 107, 97, 100, 111, 116>>
    /\ secF.data[24] = 0

====
